---- MODULE Spec2Model ----
(***************************************************************************)
(* A model of merkletreejs (statesauce fork): the eager MerkleTree         *)
(* (constructor, createHashes, getRoot, getProof, verify) and the          *)
(* step-wise builder MerkleFromLeaves (next, _createRightLeaf, _moveRight, *)
(* _createParent).                                                         *)
(*                                                                         *)
(* Buffers are sequences of bytes.  The caller's hash function is opaque   *)
(* and collision-free: a digest is a two-byte buffer, a head byte that is  *)
(* a term over the hashed buffer followed by a closing byte, so two        *)
(* digests are equal exactly when their preimages are, and the reversal of *)
(* a digest is no digest.  A raw byte n is the term with the empty         *)
(* preimage.                                                               *)
(***************************************************************************)
EXTENDS Integers, Sequences, FiniteSets, TLC

VARIABLES
    create,     \* the arguments of `new MerkleTree`: [leaves, options]
    tree,       \* the MerkleTree object (NoTree before the constructor ran)
    ret,        \* the last call on the tree and what it returned or raised
    it,         \* the MerkleFromLeaves object
    out         \* what the last MerkleFromLeaves.next() returned or raised

vars == <<create, tree, ret, it, out>>

-----------------------------------------------------------------------------
(* Bounds of the model *)

MaxLeaves == 5
MaxVariedLeaves == 3
MaxBuildLeaves == 7
MaxIterLeaves == 8
MaxTamperLeaves == 3
MaxStopLeaves == 4
MaxStopLayer == 2
MaxStopPos == 3
MaxHashLeaves == 3
MaxSnapLeaves == 4
MaxFrameLeaves == 3
MaxSortLeaves == 4

-----------------------------------------------------------------------------
(* Bytes, Buffers and the JavaScript values the code handles *)

Byte(n) == [h |-> <<>>, k |-> n]

\* The array holding the values of f at 1, 2, ..., in that order.
Array(f) == f \o <<>>

Raw(s) == Array([i \in 1..Len(s) |-> Byte(s[i])])

\* The leaf values the callers supply: two-byte Buffers, one a palindrome,
\* two the byte-reversal of one another.
LeafVals == {Raw(<<0, 1>>), Raw(<<1, 0>>), Raw(<<1, 1>>)}

\* The leaf values of the larger trees.
FewVals == {Raw(<<0, 1>>), Raw(<<1, 1>>)}

\* A Buffer that is no leaf of any tree of the model.
Stranger == Raw(<<0, 0>>)

Buf(b) == [t |-> "buf", v |-> b, m |-> 0]
Obj(b, m) == [t |-> "obj", v |-> b, m |-> m]
Null == [t |-> "null", v |-> <<>>, m |-> 0]
Undef == [t |-> "undef", v |-> <<>>, m |-> 0]
\* A proof argument: an array of entries, or a value that is no array.
List(items) == [isArray |-> TRUE, items |-> items]
NotAList == [isArray |-> FALSE, items |-> <<>>]
TypeError == [t |-> "TypeError", v |-> <<>>, m |-> 0]
\* A string of hex digits, with or without "0x", that spells the bytes b.
HexStr(b) == [t |-> "hex", v |-> b, m |-> 0]

isBuffer(x) == x.t = "buf"

\* The caller's hash function, wrapped by bufferifyFn: bytes to bytes.
hashAlgo(b) == <<[h |-> b, k |-> 0], [h |-> <<>>, k |-> -1]>>

reverse(b) == Array([i \in 1..Len(b) |-> b[Len(b) + 1 - i]])

Min(S) == CHOOSE x \in S : \A y \in S : x <= y

RECURSIVE ByteCompare(_, _), BufferCompare(_, _)

ByteCompare(a, b) ==
    IF a = b THEN 0
    ELSE IF a.h = b.h THEN (IF a.k < b.k THEN -1 ELSE 1)
    ELSE BufferCompare(a.h, b.h)

\* Buffer.compare: -1, 0 or 1, byte-lexicographic, a proper prefix first.
BufferCompare(x, y) ==
    LET n == IF Len(x) < Len(y) THEN Len(x) ELSE Len(y)
        d == {i \in 1..n : x[i] # y[i]}
    IN  IF d = {}
        THEN (IF Len(x) < Len(y) THEN -1 ELSE IF Len(x) > Len(y) THEN 1 ELSE 0)
        ELSE ByteCompare(x[Min(d)], y[Min(d)])

\* combined.sort(Buffer.compare) on a two-element array.
sortPair(c) == IF BufferCompare(c[1], c[2]) > 0 THEN <<c[2], c[1]>> ELSE c

\* bufferify: a Buffer is returned as it is; null is probed for `.words`,
\* which raises; undefined falls through and is returned as it is.
bufferify(x) ==
    IF isBuffer(x) THEN x
    ELSE IF x.t = "null" THEN TypeError
    ELSE IF x.t = "hex" THEN Buf(x.v)
    ELSE x

\* JavaScript truthiness of the values above.
truthy(x) == x.t \in {"buf", "obj"} \/ (x.t = "hex" /\ x.v # <<>>)

-----------------------------------------------------------------------------
(* MerkleTree: constructor and createHashes *)

NoTree == [built |-> FALSE]

\* The bytes createHashes hashes for a node: the Buffer, or the `value` of
\* an augmented leaf.
nodeData(x) == x.v

\* this.hashAlgo = bufferifyFn(hashAlgorithm), for a hashAlgorithm that
\* returns Buffers ("buffer") or strings that are no hex strings ("text"):
\* the string goes through v.toString(CryptoJS.enc.Hex), which returns it as
\* it is, and Buffer.from(v, "hex"), which decodes no byte of it.
treeHashAlgo(t, b) == IF t.hashReturns = "text" THEN <<>> ELSE hashAlgo(b)

\* The hash of a pair (createHashes, the part after the odd-node branch).
pairHash(t, left, right) ==
    LET combined == IF t.isBitcoinTree
                    THEN <<reverse(nodeData(left)), reverse(nodeData(right))>>
                    ELSE <<nodeData(left), nodeData(right)>>
        sorted == IF t.sortPairs THEN sortPair(combined) ELSE combined
        hash == treeHashAlgo(t, sorted[1] \o sorted[2])
    IN  Buf(IF t.isBitcoinTree THEN reverse(treeHashAlgo(t, hash)) ELSE hash)

bitcoinOddSingleHash(t, data) ==
    Buf(reverse(treeHashAlgo(t, reverse(data) \o reverse(data))))

\* The Bitcoin way of duplicating the odd ending node.
bitcoinOdd(t, data) ==
    Buf(reverse(treeHashAlgo(t, treeHashAlgo(t, reverse(data) \o reverse(data)))))

\* Whether the loop index i (from 0) is the lone trailing node of `nodes`.
isLonely(nodes, i) == i + 1 = Len(nodes) /\ Len(nodes) % 2 = 1

promotesAlways(t) == ~t.isBitcoinTree

promotesNever(t) == FALSE

\* Whether a lone trailing node is pushed unchanged.
promotes(t) == ~t.isBitcoinTree /\ ~t.duplicateOdd

\* The node createHashes pushes for the loop index i (i = 0, 2, 4, ...).
layerNode(t, nodes, i) ==
    IF isLonely(nodes, i) /\ t.isBitcoinTree
    THEN bitcoinOdd(t, nodes[Len(nodes)].v)
    ELSE IF isLonely(nodes, i) /\ promotes(t)
    THEN nodes[i + 1]
    ELSE pairHash(t, nodes[i + 1],
                  IF i + 1 = Len(nodes) THEN nodes[i + 1] ELSE nodes[i + 2])

\* The number of hashAlgo calls made for the loop index i.
layerCalls(t, nodes, i) ==
    IF isLonely(nodes, i) /\ t.isBitcoinTree THEN 2
    ELSE IF isLonely(nodes, i) /\ promotes(t) THEN 0
    ELSE IF t.isBitcoinTree THEN 2 ELSE 1

\* One pass of the for loop: the layer above `nodes`.
nextLayer(t, nodes) ==
    Array([p \in 1..((Len(nodes) + 1) \div 2) |->
              layerNode(t, nodes, 2 * (p - 1))])

RECURSIVE SumCalls(_, _, _)
SumCalls(t, nodes, p) ==
    IF 2 * p >= Len(nodes) THEN 0
    ELSE layerCalls(t, nodes, 2 * p) + SumCalls(t, nodes, p + 1)

moreLayersStopsAtTwo(nodes) == Len(nodes) > 2

\* The loop condition of createHashes.
moreLayers(nodes) == Len(nodes) > 1

\* createHashes: t.layers grown until the top layer has one node; t.calls
\* records the number of hashAlgo calls made for each layer.
RECURSIVE createHashesDoWhile(_)
createHashesDoWhile(t) ==
    LET nodes == t.layers[Len(t.layers)]
        t1 == [t EXCEPT !.layers = Append(@, nextLayer(t, nodes)),
                        !.calls = Append(@, SumCalls(t, nodes, 0))]
    IN  IF Len(nextLayer(t, nodes)) > 1 THEN createHashesDoWhile(t1) ELSE t1

RECURSIVE createHashes(_)
createHashes(t) ==
    LET nodes == t.layers[Len(t.layers)]
    IN  IF moreLayers(nodes)
        THEN createHashes([t EXCEPT
                 !.layers = Append(@, nextLayer(t, nodes)),
                 !.calls = Append(@, SumCalls(t, nodes, 0))])
        ELSE t

leavesAsGiven(s) == s

\* leaves.sort(compare): a stable sort by the leaves' bytes.
RECURSIVE sortLeaves(_)
sortLeaves(s) ==
    IF Len(s) <= 1 THEN s
    ELSE LET rest == sortLeaves(Tail(s))
             before == SelectSeq(rest, LAMBDA y : BufferCompare(y.v, s[1].v) < 0)
             after == SelectSeq(rest, LAMBDA y : BufferCompare(y.v, s[1].v) >= 0)
         IN  before \o <<s[1]>> \o after

\* The caller's createLeaves function: it attaches metadata to a leaf.
createLeaf(b, i) == Obj(b, i)

\* new MerkleTree(leaves, hashAlgorithm, options)
MerkleTreeWith(leaves, o, returns) ==
    LET srt == o.sortLeaves \/ o.sort
        aug == IF o.isBitcoinTree THEN FALSE ELSE o.createLeaves
        hashed == IF o.hashLeaves
                  THEN Array([i \in 1..Len(leaves) |->
                           treeHashAlgo([hashReturns |-> returns], leaves[i])])
                  ELSE leaves
        made == Array([i \in 1..Len(leaves) |->
                    IF aug THEN createLeaf(hashed[i], i) ELSE Buf(hashed[i])])
        lvs == IF srt THEN sortLeaves(made) ELSE made
    IN  createHashes([built |-> TRUE,
                      hashReturns |-> returns,
                      isBitcoinTree |-> o.isBitcoinTree,
                      hashLeaves |-> o.hashLeaves,
                      sortLeaves |-> srt,
                      sortPairs |-> o.sortPairs \/ o.sort,
                      duplicateOdd |-> o.duplicateOdd,
                      createLeaves |-> aug,
                      leaves |-> lvs,
                      layers |-> <<lvs>>,
                      calls |-> <<0>>])

\* The constructor with a hashAlgorithm that returns Buffers.
MerkleTree(leaves, o) == MerkleTreeWith(leaves, o, "buffer")

getRoot(t) ==
    IF Len(t.layers[Len(t.layers)]) > 0
    THEN t.layers[Len(t.layers)][1]
    ELSE Buf(<<>>)

-----------------------------------------------------------------------------
(* The states and the steps *)

Options == [isBitcoinTree : BOOLEAN, hashLeaves : BOOLEAN, sortLeaves : BOOLEAN,
            sortPairs : BOOLEAN, sort : {FALSE}, duplicateOdd : BOOLEAN,
            createLeaves : BOOLEAN]

RECURSIVE SeqsUpTo(_, _)
SeqsUpTo(S, n) ==
    IF n = 0 THEN {<<>>}
    ELSE LET shorter == SeqsUpTo(S, n - 1)
         IN  shorter \cup {Append(s, x) : s \in {q \in shorter : Len(q) = n - 1}, x \in S}

NoRet == [op |-> "none"]
NoIter == [made |-> FALSE]
NoOut == [kind |-> "none"]

InitWith(seqs, opts) ==
    /\ create \in [leaves : seqs, options : opts]
    /\ tree = NoTree
    /\ ret = NoRet
    /\ it = NoIter
    /\ out = NoOut

leavesArgumentSorted(leaves, o) ==
    IF o.sortLeaves \/ o.sort
    THEN Array([i \in 1..Len(leaves) |-> sortLeaves(Array([j \in 1..Len(leaves) |-> Buf(leaves[j])]))[i].v])
    ELSE leaves

\* The array the caller passed, after the constructor: leaves.map(...) returns
\* a new array each time, and the sort and the layers work on that one.
leavesArgument(leaves, o) == leaves

Construct ==
    /\ ~tree.built
    /\ tree' = MerkleTree(create.leaves, create.options)
    /\ create' = [create EXCEPT !.leaves = leavesArgument(create.leaves, create.options)]
    /\ UNCHANGED <<ret, it, out>>

\* A second tree from the same leaves and hash function, duplicateOdd toggled.
ConstructTwin ==
    /\ tree.built
    /\ ret = NoRet
    /\ ret' = [op |-> "twin",
               tree |-> MerkleTree(create.leaves,
                           [create.options EXCEPT !.duplicateOdd = ~@])]
    /\ UNCHANGED <<create, tree, it, out>>

\* A second tree with the same options from the same leaves in another order.
ConstructPermuted ==
    /\ tree.built
    /\ ret = NoRet
    /\ \E leaves \in {Array([i \in 1..Len(create.leaves) |-> create.leaves[p[i]]]) :
                          p \in Permutations(1..Len(create.leaves))} :
          ret' = [op |-> "permuted", leaves |-> leaves,
                  tree |-> MerkleTree(leaves, create.options)]
    /\ UNCHANGED <<create, tree, it, out>>

-----------------------------------------------------------------------------
(* MerkleTree: getProof and verify *)

Max(S) == CHOOSE x \in S : \A y \in S : x >= y

Return(v) == [kind |-> "return", val |-> v]
Throw == [kind |-> "throw", val |-> TypeError]

NoIndex == [given |-> FALSE, n |-> 0]
Index(n) == [given |-> TRUE, n |-> n]

foundAtFirst(t, leaf, i, index) ==
    IF BufferCompare(leaf, t.leaves[i + 1].v) = 0 /\ index = -1 THEN i ELSE index

\* One round of the search loop: a byte-equal leaf at position i (from 0)
\* overwrites index.
foundAt(t, leaf, i, index) ==
    IF BufferCompare(leaf, t.leaves[i + 1].v) = 0 THEN i ELSE index

\* The search loop from position i on.
RECURSIVE searchFrom(_, _, _, _)
searchFrom(t, leaf, i, index) ==
    IF i >= Len(t.leaves) THEN index
    ELSE searchFrom(t, leaf, i + 1, foundAt(t, leaf, i, index))

\* The index getProof uses when none is given: -1 when no leaf matches.
findIndex(t, leaf) == searchFrom(t, leaf, 0, -1)

\* The position of the sibling in the non-Bitcoin path.
pairIndexOf(index) == IF index % 2 = 1 THEN index - 1 ELSE index + 1

\* The data of a non-Bitcoin proof entry taken at layer i (from 0).
entryData(t, i, x) == IF t.createLeaves /\ i = 0 THEN Buf(x.v) ELSE x

\* The non-Bitcoin loop from layer i (from 0) on, to the last layer included.
RECURSIVE proofFrom(_, _, _)
proofFrom(t, i, index) ==
    IF i >= Len(t.layers) THEN <<>>
    ELSE LET layer == t.layers[i + 1]
             pairIndex == pairIndexOf(index)
             entry == [position |-> IF index % 2 = 1 THEN "left" ELSE "right",
                       data |-> entryData(t, i, layer[pairIndex + 1])]
         IN  (IF pairIndex < Len(layer) THEN <<entry>> ELSE <<>>)
             \o proofFrom(t, i + 1, index \div 2)

\* The Bitcoin loop from layer i (from 0) on, the last layer excluded.
RECURSIVE bitcoinProofFrom(_, _, _)
bitcoinProofFrom(t, i, index) ==
    IF i >= Len(t.layers) - 1 THEN <<>>
    ELSE LET layer == t.layers[i + 1]
             pairIndex == IF index % 2 = 1 THEN index - 1 ELSE index
             entry == [position |-> "none", data |-> layer[pairIndex + 1]]
         IN  (IF pairIndex < Len(layer) THEN <<entry>> ELSE <<>>)
             \o bitcoinProofFrom(t, i + 1, index \div 2)

proofAtOnePath(t, index) ==
    IF index <= -1 THEN <<>> ELSE proofFrom(t, 0, index)

\* getProof once the index is known.
proofAt(t, index) ==
    IF index <= -1 THEN <<>>
    ELSE IF t.isBitcoinTree /\ index = Len(t.leaves) - 1
    THEN bitcoinProofFrom(t, 0, index)
    ELSE proofFrom(t, 0, index)

\* getProof(leaf, index) of the MerkleTree whose leaves are Buffers.
getProof(t, leaf, index) ==
    Return(proofAt(t, IF index.given THEN index.n ELSE findIndex(t, leaf)))

\* getProof(leaf, index) of the MerkleTree with leaf augmentation: the search
\* compares with leaves[i].value, which is undefined when the leaf is a Buffer.
getProofValue(t, leaf, index) ==
    IF ~index.given /\ Len(t.leaves) > 0 /\ isBuffer(t.leaves[1])
    THEN Throw
    ELSE Return(proofAt(t, IF index.given THEN index.n ELSE findIndex(t, leaf)))

verifyStepBySide(t, hash, node) ==
    IF ~isBuffer(node.data) THEN TypeError
    ELSE IF t.isBitcoinTree
    THEN Buf(reverse(treeHashAlgo(t, treeHashAlgo(t, 
             IF node.position = "left"
             THEN reverse(node.data.v) \o reverse(hash.v)
             ELSE reverse(hash.v) \o reverse(node.data.v)))))
    ELSE Buf(treeHashAlgo(t, IF node.position = "left" THEN node.data.v \o hash.v
                                                ELSE hash.v \o node.data.v))

\* An entry that is a string instead of an object { position, data }.
StringEntry(b) == [position |-> "string", data |-> HexStr(b)]

isLeftWhenRecorded(node) == node.position = "left"

\* isLeftNode: true for a string entry, and for an object recorded left.
isLeft(node) == node.position = "string" \/ node.position = "left"

\* One round of the loop of verify: the new accumulator, or TypeError when
\* the entry's data is no Buffer.
verifyStep(t, hash, node) ==
    LET isLeftNode == isLeft(node)
        data == IF node.position = "string" THEN bufferify(node.data)
                                            ELSE node.data
    IN  IF ~isBuffer(data) THEN TypeError
        ELSE IF t.isBitcoinTree
        THEN Buf(reverse(treeHashAlgo(t, treeHashAlgo(t, 
                 IF isLeftNode THEN reverse(data.v) \o reverse(hash.v)
                               ELSE reverse(hash.v) \o reverse(data.v)))))
        ELSE IF t.sortPairs
        THEN (IF BufferCompare(hash.v, data.v) = -1
              THEN Buf(treeHashAlgo(t, hash.v \o data.v))
              ELSE Buf(treeHashAlgo(t, data.v \o hash.v)))
        ELSE Buf(treeHashAlgo(t, IF isLeftNode THEN data.v \o hash.v
                                        ELSE hash.v \o data.v))

RECURSIVE verifyFold(_, _, _, _)
verifyFold(t, proof, i, hash) ==
    IF i > Len(proof) \/ ~isBuffer(hash) THEN hash
    ELSE verifyFold(t, proof, i + 1, verifyStep(t, hash, proof[i]))

\* The guard of verify: the shapes that are answered false.
rejects(proof, targetNode, root) ==
    \/ ~proof.isArray
    \/ Len(proof.items) = 0
    \/ ~truthy(targetNode)
    \/ ~truthy(root)

\* verify(proof, targetNode, root)
verify(t, proof, targetNode, root) ==
    IF bufferify(targetNode) = TypeError \/ bufferify(root) = TypeError
    THEN Throw
    ELSE IF rejects(proof, targetNode, bufferify(root)) THEN Return(FALSE)
    ELSE LET hash == verifyFold(t, proof.items, 1, bufferify(targetNode))
         IN  IF ~isBuffer(hash) \/ ~isBuffer(bufferify(root)) THEN Throw
             ELSE Return(BufferCompare(hash.v, root.v) = 0)

-----------------------------------------------------------------------------
(* The calls on a built tree *)

\* The leaf values a caller asks about: the tree's own and a foreign one.
Asked(t) == {t.leaves[i].v : i \in 1..Len(t.leaves)} \cup {Stranger}

\* getProof(leaf) and getProof(leaf, index) of src/unnamed/part_001; its trees
\* have no leaf augmentation.
GetProof ==
    /\ tree.built /\ ~create.options.createLeaves
    /\ \E leaf \in Asked(tree), index \in {NoIndex} \cup {Index(n) : n \in -1..Len(tree.leaves)} :
          /\ index.given =>
                leaf = IF index.n \in 0..(Len(tree.leaves) - 1)
                       THEN tree.leaves[index.n + 1].v ELSE Stranger
          /\ ret' = [op |-> "getProof", leaf |-> leaf, index |-> index,
                     res |-> getProof(tree, leaf, index)]
    /\ UNCHANGED <<create, tree, it, out>>

\* getProof(leaf) and getProof(leaf, index) of src/index.ts.
GetProofValue ==
    /\ tree.built
    /\ \E leaf \in Asked(tree), index \in {NoIndex} \cup {Index(n) : n \in -1..Len(tree.leaves)} :
          /\ index.given =>
                leaf = IF index.n \in 0..(Len(tree.leaves) - 1)
                       THEN tree.leaves[index.n + 1].v ELSE Stranger
          /\ ret' = [op |-> "getProofValue", leaf |-> leaf, index |-> index,
                     res |-> getProofValue(tree, leaf, index)]
    /\ UNCHANGED <<create, tree, it, out>>

\* verify(proof, leaf, getRoot()) on the proof getProof has just returned.
Verify ==
    /\ tree.built
    /\ ret.op \in {"getProof", "getProofValue"}
    /\ ret.res.kind = "return"
    /\ ret' = [op |-> "verify", via |-> ret.op, leaf |-> ret.leaf,
               index |-> ret.index, proof |-> ret.res.val,
               res |-> verify(tree, List(ret.res.val), Buf(ret.leaf),
                             getRoot(tree))]
    /\ UNCHANGED <<create, tree, it, out>>

\* verify on the shapes a caller may pass: a proof that is no list or empty,
\* a leaf or a root that is null or undefined.
VerifyShape ==
    /\ tree.built
    /\ Len(tree.leaves) > 0
    /\ \E proof \in {NotAList, List(<<>>), List(proofAt(tree, 0))},
          targetNode \in {Buf(tree.leaves[1].v), Null, Undef},
          root \in {getRoot(tree), Null, Undef} :
          ret' = [op |-> "verifyShape", proof |-> proof, leaf |-> targetNode,
                  root |-> root,
                  res |-> verify(tree, proof, targetNode, root)]
    /\ UNCHANGED <<create, tree, it, out>>

\* bufferToHex: "0x" and the hex digits of the bytes.
bufferToHex(value) == HexStr(value.v)

\* getHexProof(leaf, index)
getHexProof(t, leaf, index) ==
    LET proof == getProof(t, leaf, index).val
    IN  Return(Array([i \in 1..Len(proof) |-> bufferToHex(proof[i].data)]))

\* getHexProof(leaf) and getHexProof(leaf, index) of src/unnamed/part_001.
GetHexProof ==
    /\ tree.built /\ ~create.options.createLeaves
    /\ \E leaf \in Asked(tree), index \in {NoIndex} \cup {Index(n) : n \in -1..Len(tree.leaves)} :
          /\ index.given =>
                leaf = IF index.n \in 0..(Len(tree.leaves) - 1)
                       THEN tree.leaves[index.n + 1].v ELSE Stranger
          /\ ret' = [op |-> "getHexProof", leaf |-> leaf, index |-> index,
                     res |-> getHexProof(tree, leaf, index)]
    /\ UNCHANGED <<create, tree, it, out>>

\* getRoot()
GetRoot ==
    /\ tree.built
    /\ ret' = [op |-> "getRoot", res |-> Return(getRoot(tree))]
    /\ UNCHANGED <<create, tree, it, out>>

\* getLeaves(): the tree's own array of leaves.
GetLeaves ==
    /\ tree.built
    /\ ret' = [op |-> "getLeaves", res |-> Return(tree.leaves)]
    /\ UNCHANGED <<create, tree, it, out>>

\* getLayers(): the tree's own array of layers.
GetLayers ==
    /\ tree.built
    /\ ret' = [op |-> "getLayers", res |-> Return(tree.layers)]
    /\ UNCHANGED <<create, tree, it, out>>

ProofOptions == {o \in Options : ~o.hashLeaves /\ ~o.sortLeaves}

\* The trees of src/unnamed/part_001, leaf hashing and leaf sorting included.
FrameOptions == {o \in Options : ~o.createLeaves}

InitFrame == InitWith(SeqsUpTo(LeafVals, MaxFrameLeaves), FrameOptions)
NextFrame ==
    Construct \/ GetProof \/ GetHexProof \/ Verify \/ GetRoot \/ GetLeaves \/ GetLayers
SpecFrame == InitFrame /\ [][NextFrame]_vars

\* The leaf sequences of the proof calls: short ones over three values, longer
\* ones over two.
ProofLeaves ==
    SeqsUpTo(LeafVals, MaxVariedLeaves) \cup SeqsUpTo(FewVals, MaxLeaves)

Init == InitWith(ProofLeaves, ProofOptions)
Next == Construct \/ GetProof \/ GetProofValue \/ Verify
Spec == Init /\ [][Next]_vars

InitShape == InitWith(SeqsUpTo(FewVals, MaxLeaves), ProofOptions)
NextShape == Construct \/ VerifyShape
SpecShape == InitShape /\ [][NextShape]_vars

-----------------------------------------------------------------------------
(* MerkleFromLeaves: the step-wise builder *)

\* Nodes are objects shared by reference: it.heap holds them, the layers and
\* the left, right and parent fields hold their positions in it (0: absent).
LeafNode(data) ==
    [hasLeaf |-> TRUE, leaf |-> data, left |-> 0, right |-> 0,
     hasValue |-> FALSE, value |-> <<>>, parent |-> 0]

ParentNode(l, r) ==
    [hasLeaf |-> FALSE, leaf |-> <<>>, left |-> l, right |-> r,
     hasValue |-> FALSE, value |-> <<>>, parent |-> 0]

\* new MerkleFromLeaves(leaves, hashAlgo, options)
MerkleFromLeaves(leaves, o) ==
    [made |-> TRUE, leaves |-> leaves, options |-> o, heap |-> <<>>,
     layers |-> <<>>, i |-> 0, j |-> 0, done |-> FALSE, curIsLeaf |-> FALSE,
     node |-> 0, emitted |-> 0]

Ok(s) == [s |-> s, ok |-> TRUE]
Raised(s) == [s |-> s, ok |-> FALSE]

hasLayer(s, k) == k >= 0 /\ k < Len(s.layers)
layerLen(s, k) == Len(s.layers[k + 1])
nodeAt(s, k, p) == s.layers[k + 1][p + 1]
hasNodeAt(s, k, p) == hasLayer(s, k) /\ p >= 0 /\ p < layerLen(s, k)

\* layers[k].push(id)
pushTo(s, k, id) == [s EXCEPT !.layers[k + 1] = Append(@, id)]

\* layers[k].pop()
popFrom(s, k) == [s EXCEPT !.layers[k + 1] = SubSeq(@, 1, Len(@) - 1)]

\* A new object on the heap; its position is Len(heap) afterwards.
alloc(s, n) == [s EXCEPT !.heap = Append(@, n)]

\* The test that sets curIsLeaf.
isLeafHere(s) ==
    IF hasLayer(s, s.i)
    THEN (IF s.j < layerLen(s, s.i)
          THEN ~s.heap[nodeAt(s, s.i, s.j)].hasValue
          ELSE TRUE)
    ELSE TRUE

\* node.value ? node.value : node.leaf.data
digestOf(s, id) ==
    IF s.heap[id].hasValue THEN s.heap[id].value ELSE s.heap[id].leaf

\* The digest _createParent gives a parent.
parentHash(s, l, r) ==
    LET combined == <<digestOf(s, l), digestOf(s, r)>>
        sorted == IF s.options.sortPairs THEN sortPair(combined) ELSE combined
    IN  hashAlgo(sorted[1] \o sorted[2])

\* _createParent
createParent(s) ==
    LET l == IF hasNodeAt(s, s.i, s.j - 1) THEN nodeAt(s, s.i, s.j - 1) ELSE 0
        r == IF hasNodeAt(s, s.i, s.j) THEN nodeAt(s, s.i, s.j) ELSE 0
        s1 == IF Len(s.layers) = s.i + 1
              THEN [s EXCEPT !.layers = Append(@, <<>>)] ELSE s
        s2 == alloc(s1, ParentNode(l, r))
        p == Len(s2.heap)
        s3 == pushTo(s2, s.i + 1, p)
    IN  IF ~hasLayer(s1, s.i + 1) THEN Raised(s1)
        ELSE IF l = 0 \/ r = 0 THEN Raised(s3)
        ELSE Ok([s3 EXCEPT
                 !.heap = Array([k \in 1..Len(s3.heap) |->
                    IF k = p
                    THEN [s3.heap[k] EXCEPT !.hasValue = TRUE,
                                            !.value = parentHash(s3, l, r)]
                    ELSE IF k = l \/ k = r
                    THEN [s3.heap[k] EXCEPT !.parent = p]
                    ELSE s3.heap[k]])])

\* _createRightLeaf
createRightLeaf(s) ==
    IF s.i = 0
    THEN (IF s.j < Len(s.leaves)
          THEN LET s1 == alloc(s, LeafNode(s.leaves[s.j + 1]))
               IN  IF hasLayer(s1, 0) THEN Ok(pushTo(s1, 0, Len(s1.heap)))
                   ELSE Raised(s)
          ELSE Raised(s))
    ELSE (IF hasNodeAt(s, s.i, s.j) THEN Ok(s) ELSE Raised(s))

\* The end-of-layer test of _moveRight.
endOfLayer(s) ==
    IF s.i = 0 THEN s.j = Len(s.leaves) - 1
    ELSE s.j = layerLen(s, s.i) - 1

\* _moveRight
moveRight(s) ==
    IF ~hasLayer(s, s.i) THEN Raised(s)
    ELSE
    LET s1 == [s EXCEPT
                 !.node = IF hasNodeAt(s, s.i, s.j) THEN nodeAt(s, s.i, s.j) ELSE 0,
                 !.curIsLeaf = isLeafHere(s)]
    IN  Ok(IF endOfLayer(s1) THEN [s1 EXCEPT !.j = 0, !.i = @ + 1]
           ELSE [s1 EXCEPT !.j = @ + 1])

\* { value: { value: this.node, depth, index }, done: false }
Yield(s, depth, index) ==
    [kind |-> "node", done |-> FALSE, node |-> s.node, depth |-> depth,
     index |-> index]
FinishedNotDone ==
    [kind |-> "null", done |-> FALSE, node |-> 0, depth |-> 0, index |-> 0]
Finished == [kind |-> "null", done |-> TRUE, node |-> 0, depth |-> 0, index |-> 0]
Failed == [kind |-> "throw", done |-> FALSE, node |-> 0, depth |-> 0, index |-> 0]

\* The tail shared by the branches that emit a left node: the parent is
\* created and the node is returned.
emitWithParent(s, depth, index) ==
    LET c == createParent(s)
    IN  IF c.ok THEN [s |-> c.s, out |-> Yield(c.s, depth, index)]
        ELSE [s |-> c.s, out |-> Failed]

\* The same with _createRightLeaf before _createParent.
emitWithRight(s, depth, index) ==
    LET r == createRightLeaf(s)
    IN  IF r.ok THEN emitWithParent(r.s, depth, index)
        ELSE [s |-> r.s, out |-> Failed]

\* Whether the cursor is on the lone trailing node of its layer.
onLonely(s) ==
    IF s.i = 0 /\ s.curIsLeaf
    THEN s.j + 1 = Len(s.leaves) /\ Len(s.leaves) % 2 = 1
    ELSE s.j + 1 = layerLen(s, s.i) /\ layerLen(s, s.i) % 2 = 1

\* next()
RECURSIVE next(_)
next(s0) ==
    LET depth == s0.i
        index == s0.j
        s == [s0 EXCEPT !.curIsLeaf = isLeafHere(s0)]
    IN
    IF s.j % 2 = 0 THEN
      IF ~s.curIsLeaf THEN
        IF layerLen(s, s.i) = 1 THEN
          IF s.done THEN [s |-> s, out |-> Finished]
          ELSE \* root
               LET s1 == [s EXCEPT !.node = nodeAt(s, s.i, s.j), !.done = TRUE]
               IN  [s |-> s1, out |-> Yield(s1, depth, index)]
        ELSE IF onLonely(s) THEN
          IF s.options.duplicateOdd THEN
            \* extra left / missing right
            LET s1 == [s EXCEPT !.node = nodeAt(s, s.i, s.j)]
                s2 == pushTo(s1, s.i, s1.node)
            IN  emitWithParent([s2 EXCEPT !.j = @ + 1], depth, index)
          ELSE
            LET leaf == nodeAt(s, s.i, layerLen(s, s.i) - 1)
                s1 == [popFrom(s, s.i) EXCEPT !.node = leaf]
            IN  IF ~hasLayer(s1, s.i + 1) THEN [s |-> s1, out |-> Failed]
                ELSE next([pushTo(s1, s.i + 1, leaf) EXCEPT !.j = 0, !.i = @ + 1])
        ELSE \* normal left
          emitWithParent([s EXCEPT !.node = nodeAt(s, s.i, s.j), !.j = @ + 1],
                         depth, index)
      ELSE \* leaves
        IF (s.i > 0 /\ ~hasLayer(s, s.i)) THEN [s |-> s, out |-> Failed]
        ELSE IF onLonely(s) THEN
          \* extra left / missing right leaves
          IF s.options.duplicateOdd THEN
            IF s.i = 0 THEN
              LET s1 == alloc(s, LeafNode(s.leaves[s.j + 1]))
                  s2 == [s1 EXCEPT !.node = Len(s1.heap),
                                   !.leaves = Append(@, s.leaves[s.j + 1])]
              IN  IF ~hasLayer(s2, 0) THEN [s |-> s2, out |-> Failed]
                  ELSE emitWithRight([pushTo(s2, 0, s2.node) EXCEPT !.j = @ + 1],
                                     depth, index)
            ELSE
              LET s1 == [s EXCEPT !.node = nodeAt(s, s.i, s.j)]
                  s2 == pushTo(pushTo(s1, s.i, s1.node), s.i, s1.node)
              IN  emitWithRight([s2 EXCEPT !.j = @ + 1], depth, index)
          ELSE
            IF s.i = 0 THEN
              LET s1 == alloc(s, LeafNode(s.leaves[s.j + 1]))
                  s2 == [s1 EXCEPT !.node = Len(s1.heap)]
              IN  IF ~hasLayer(s2, 1) THEN [s |-> s2, out |-> Failed]
                  ELSE next([pushTo(s2, 1, s2.node) EXCEPT !.j = 0, !.i = @ + 1])
            ELSE
              LET leaf == nodeAt(s, s.i, layerLen(s, s.i) - 1)
                  s1 == popFrom(s, s.i)
              IN  IF ~hasLayer(s1, s.i + 1) THEN [s |-> s1, out |-> Failed]
                  ELSE next([pushTo(s1, s.i + 1, leaf) EXCEPT !.j = 0, !.i = @ + 1])
        ELSE
          IF s.i = 0 THEN
            IF s.j >= Len(s.leaves)
            THEN [s |-> IF hasLayer(s, 0) THEN s
                        ELSE [s EXCEPT !.layers = Append(@, <<>>)],
                  out |-> Failed]
            ELSE
              LET s1 == IF hasLayer(s, 0) THEN s
                        ELSE [s EXCEPT !.layers = Append(@, <<>>)]
                  s2 == alloc(s1, LeafNode(s.leaves[s.j + 1]))
                  s3 == pushTo([s2 EXCEPT !.node = Len(s2.heap)], 0, Len(s2.heap))
              IN  emitWithRight([s3 EXCEPT !.j = @ + 1], depth, index)
          ELSE
            IF ~hasNodeAt(s, s.i, s.j) THEN [s |-> s, out |-> Failed]
            ELSE emitWithRight([s EXCEPT !.node = nodeAt(s, s.i, s.j),
                                         !.j = @ + 1], depth, index)
    ELSE
      LET m == moveRight(s)
      IN  IF m.ok THEN [s |-> m.s, out |-> Yield(m.s, depth, index)]
          ELSE [s |-> m.s, out |-> Failed]

\* The digests of the builder's layers, layer by layer.
iterLayers(s) ==
    [k \in 1..Len(s.layers) |->
        [p \in 1..Len(s.layers[k]) |-> digestOf(s, s.layers[k][p])]]

\* The builder's options: the eager tree's without the leaf options.
IterOptions ==
    {o \in Options : ~o.hashLeaves /\ ~o.sortLeaves /\ ~o.createLeaves}

\* One call of next() on the builder; a caller whose call raised stops.
\* it.emitted counts the results returned with done = false.
Step ==
    /\ it.made
    /\ out.kind # "throw"
    /\ \E r \in {next(it)} :
          /\ it' = [r.s EXCEPT !.emitted = IF r.out.kind = "node" THEN @ + 1 ELSE @]
          /\ out' = r.out
    /\ UNCHANGED <<create, tree, ret>>

InitIter ==
    /\ create \in [leaves : SeqsUpTo(FewVals, MaxIterLeaves) \ {<<>>},
                   options : IterOptions]
    /\ tree = MerkleTree(create.leaves, create.options)
    /\ ret = NoRet
    /\ it = MerkleFromLeaves(create.leaves, create.options)
    /\ out = NoOut
NextIter == Step
SpecIter == InitIter /\ [][NextIter]_vars

\* The trees that sort their leaves.
SortOptions == {o \in Options : o.sortLeaves}

InitSort == InitWith(SeqsUpTo(LeafVals, MaxSortLeaves), SortOptions)
NextSort == Construct \/ ConstructPermuted
SpecSort == InitSort /\ [][NextSort]_vars

InitBuild == InitWith(SeqsUpTo(FewVals, MaxBuildLeaves), Options)
NextBuild == Construct \/ ConstructTwin
SpecBuild == InitBuild /\ [][NextBuild]_vars

-----------------------------------------------------------------------------
(* MerkleFromLeaves with a checkpoint (stopi, stopj): the later version of
   the step-wise builder, which computes a node's digest when the cursor
   comes to the node *)

\* { leaf }: `set` tells whether the leaf is an object or undefined.
StopLeafNode(data, set) ==
    [hasLeaf |-> TRUE, leafSet |-> set, leaf |-> data, left |-> 0, right |-> 0,
     hasValue |-> FALSE, valued |-> FALSE, value |-> <<>>, parent |-> 0]

\* { left: node } followed by parent.value = undefined: the property `value`
\* exists and holds no digest.
StopParentNode(l) ==
    [hasLeaf |-> FALSE, leafSet |-> FALSE, leaf |-> <<>>, left |-> l, right |-> 0,
     hasValue |-> TRUE, valued |-> FALSE, value |-> <<>>, parent |-> 0]

\* new MerkleFromLeaves(leaves, hashAlgo, options, stopi, stopj); it.late
\* records that a node at or after the checkpoint has been emitted.
MerkleFromLeavesAt(leaves, o, stopi, stopj) ==
    [made |-> TRUE, leaves |-> leaves, options |-> o, heap |-> <<>>,
     layers |-> <<>>, i |-> 0, j |-> 0, done |-> FALSE, curIsLeaf |-> FALSE,
     node |-> 0, stop |-> FALSE, stopi |-> stopi, stopj |-> stopj,
     emitted |-> 0, late |-> FALSE]

NoData == [ok |-> FALSE, v |-> <<>>]

\* child.value ? child.value : child.leaf.data, for the child c of a node
\* (0 when the node has no such child).
childData(s, c) ==
    IF c = 0 THEN NoData
    ELSE IF s.heap[c].valued THEN [ok |-> TRUE, v |-> s.heap[c].value]
    ELSE IF s.heap[c].leafSet THEN [ok |-> TRUE, v |-> s.heap[c].leaf]
    ELSE NoData

\* The digest computed for the node n from its children.
nodeHash(s, n) ==
    LET l == childData(s, s.heap[n].left)
        r == childData(s, s.heap[n].right)
        combined == <<l.v, r.v>>
        sorted == IF s.options.sortPairs THEN sortPair(combined) ELSE combined
    IN  IF ~l.ok \/ ~r.ok THEN NoData
        ELSE [ok |-> TRUE, v |-> hashAlgo(sorted[1] \o sorted[2])]

\* node.value = hash
setValue(s, n, hash) ==
    [s EXCEPT !.heap[n].hasValue = TRUE, !.heap[n].valued = TRUE,
              !.heap[n].value = hash]

\* if (!this.layers[k]) this.layers[k] = []
ensureLayer(s, k) ==
    IF hasLayer(s, k) THEN s ELSE [s EXCEPT !.layers = Append(@, <<>>)]

\* const parent = layers[i + 1][layers[i + 1].length - 1]; node.parent =
\* parent; parent.right = node (and parent.left = node when `both`).
attachToLastParent(s, n, both) ==
    IF ~hasLayer(s, s.i + 1) THEN Raised(s)
    ELSE IF layerLen(s, s.i + 1) = 0
    THEN Raised([s EXCEPT !.heap[n].parent = 0])
    ELSE LET q == nodeAt(s, s.i + 1, layerLen(s, s.i + 1) - 1)
             s1 == [s EXCEPT !.heap[n].parent = q]
         IN  Ok([s1 EXCEPT !.heap[q].right = n,
                           !.heap[q].left = IF both THEN n ELSE @])

\* const parent = { left: node }; parent.value = undefined; node.parent =
\* parent; the parent is pushed to the layer above when `push`.
newParent(s, n, push) ==
    LET s1 == IF push THEN ensureLayer(s, s.i + 1) ELSE s
        s2 == alloc(s1, StopParentNode(n))
        q == Len(s2.heap)
        s3 == [s2 EXCEPT !.heap[n].parent = q]
    IN  IF push THEN pushTo(s3, s.i + 1, q) ELSE s3

ExitMarker(s, done) ==
    [kind |-> "exit", done |-> done, node |-> 0, depth |-> s.i,
     exit |-> s.layers]
StopYield(s, n) ==
    [kind |-> "node", done |-> FALSE, node |-> n, depth |-> s.i, exit |-> <<>>]
StopFinished ==
    [kind |-> "null", done |-> TRUE, node |-> 0, depth |-> 0, exit |-> <<>>]
StopFailed ==
    [kind |-> "throw", done |-> FALSE, node |-> 0, depth |-> 0, exit |-> <<>>]

\* _createRight
stopCreateRight(s) ==
    IF ~s.curIsLeaf
    THEN LET n == nodeAt(s, s.i, s.j)
             h == nodeHash(s, n)
         IN  IF ~h.ok THEN Raised(s)
             ELSE attachToLastParent(setValue(s, n, h.v), n, FALSE)
    ELSE IF s.i = 0
    THEN (IF s.j >= Len(s.leaves) THEN Raised(s)
          ELSE LET s1 == alloc(s, StopLeafNode(s.leaves[s.j + 1], TRUE))
                   n == Len(s1.heap)
               IN  IF ~hasLayer(s1, 0) THEN Raised(s1)
                   ELSE attachToLastParent(pushTo(s1, 0, n), n, FALSE))
    ELSE IF ~hasNodeAt(s, s.i, s.j) THEN Raised(s)
    ELSE attachToLastParent(s, nodeAt(s, s.i, s.j), FALSE)

\* _moveRight
stopMoveRight(s0) ==
    LET s == [s0 EXCEPT !.curIsLeaf = isLeafHere(s0)]
        atEnd == IF s.curIsLeaf \/ s.i > 0
                 THEN s.j = layerLen(s, s.i) - 1
                 ELSE s.j = Len(s.leaves) - 1
        s1 == IF atEnd THEN [s EXCEPT !.j = 0, !.i = @ + 1]
              ELSE [s EXCEPT !.j = @ + 1]
    IN  IF ~hasLayer(s, s.i) THEN Raised(s)
        ELSE IF ~hasLayer(s1, s1.i) THEN Raised(s1)
        ELSE Ok([s1 EXCEPT !.node = IF hasNodeAt(s1, s1.i, s1.j)
                                    THEN nodeAt(s1, s1.i, s1.j) ELSE 0])

\* next()
RECURSIVE stopNext(_)
stopNext(s0) ==
    LET s == [s0 EXCEPT !.curIsLeaf = isLeafHere(s0)]
    IN
    IF s.stop THEN [s |-> s, out |-> ExitMarker(s, TRUE)]
    ELSE IF s.i = s.stopi /\ s.j = s.stopj
    THEN [s |-> [s EXCEPT !.stop = TRUE], out |-> ExitMarker(s, FALSE)]
    ELSE IF s.j % 2 = 0 THEN
      IF ~s.curIsLeaf THEN
        LET n == nodeAt(s, s.i, s.j)
            h == nodeHash(s, n)
            sn == [s EXCEPT !.node = n]
        IN
        IF layerLen(s, s.i) = 1 THEN
          IF s.done THEN [s |-> s, out |-> StopFinished]
          ELSE IF ~h.ok THEN [s |-> s, out |-> StopFailed]
          ELSE LET s1 == [setValue(sn, n, h.v) EXCEPT !.done = TRUE]
               IN  [s |-> s1, out |-> StopYield(s1, n)]
        ELSE IF onLonely(s) THEN
          IF s.options.duplicateOdd THEN
            \* extra left / missing right
            IF ~h.ok THEN [s |-> sn, out |-> StopFailed]
            ELSE LET a == attachToLastParent(
                              pushTo(setValue(sn, n, h.v), s.i, n), n, TRUE)
                     s1 == [a.s EXCEPT !.i = @ + 1, !.j = 0]
                 IN  IF a.ok THEN [s |-> s1, out |-> StopYield(s1, n)]
                     ELSE [s |-> a.s, out |-> StopFailed]
          ELSE
            LET s1 == IF s.i = 0
                      THEN LET has == Len(s.leaves) > 0
                               a == alloc([s EXCEPT !.leaves =
                                              IF has THEN SubSeq(@, 1, Len(@) - 1)
                                              ELSE @],
                                          StopLeafNode(
                                              IF has THEN s.leaves[Len(s.leaves)]
                                              ELSE <<>>, has))
                           IN  [a EXCEPT !.node = Len(a.heap)]
                      ELSE [popFrom(s, s.i) EXCEPT
                               !.node = nodeAt(s, s.i, layerLen(s, s.i) - 1)]
            IN  IF ~hasLayer(s1, s.i + 1) THEN [s |-> s1, out |-> StopFailed]
                ELSE stopNext([pushTo(s1, s.i + 1, s1.node) EXCEPT
                                  !.j = 0, !.i = @ + 1])
        ELSE \* normal left
          IF ~h.ok THEN [s |-> sn, out |-> StopFailed]
          ELSE LET s1 == newParent(setValue(sn, n, h.v), n, TRUE)
                   s2 == [s1 EXCEPT !.j = @ + 1]
               IN  [s |-> s2, out |-> StopYield(s2, n)]
      ELSE \* leaves
        IF s.i > 0 /\ ~hasLayer(s, s.i) THEN [s |-> s, out |-> StopFailed]
        ELSE IF onLonely(s) THEN
          IF s.options.duplicateOdd THEN
            LET s1 == IF s.i = 0
                      THEN LET a == alloc([s EXCEPT !.leaves =
                                              Append(@, s.leaves[s.j + 1])],
                                          StopLeafNode(s.leaves[s.j + 1], TRUE))
                           IN  [a EXCEPT !.node = Len(a.heap)]
                      ELSE pushTo([s EXCEPT !.node = nodeAt(s, s.i, s.j)],
                                  s.i, nodeAt(s, s.i, s.j))
                s2 == [newParent(s1, s1.node, FALSE) EXCEPT !.j = @ + 1]
            IN  [s |-> s2, out |-> StopYield(s2, s2.node)]
          ELSE
            LET s1 == IF s.i = 0
                      THEN LET a == alloc(s, StopLeafNode(s.leaves[s.j + 1], TRUE))
                           IN  [a EXCEPT !.node = Len(a.heap)]
                      ELSE s
                moved == IF s.i = 0 THEN s1.node ELSE nodeAt(s, s.i, s.j)
            IN  IF ~hasLayer(s1, s.i + 1) THEN [s |-> s1, out |-> StopFailed]
                ELSE stopNext([pushTo(s1, s.i + 1, moved) EXCEPT
                                  !.j = 0, !.i = @ + 1])
        ELSE
          LET s1 == ensureLayer(s, s.i)
              known == IF s.i = 0 THEN s.j < Len(s.leaves)
                                  ELSE hasNodeAt(s, s.i, s.j)
              s2 == IF s.i = 0
                    THEN LET a == alloc(s1, StopLeafNode(s.leaves[s.j + 1], TRUE))
                         IN  pushTo([a EXCEPT !.node = Len(a.heap)], 0, Len(a.heap))
                    ELSE [s1 EXCEPT !.node = nodeAt(s, s.i, s.j)]
              s3 == [newParent(s2, s2.node, TRUE) EXCEPT !.j = @ + 1]
          IN  IF ~known THEN [s |-> s1, out |-> StopFailed]
              ELSE [s |-> s3, out |-> StopYield(s3, s3.node)]
    ELSE
      LET c == stopCreateRight(s)
          m == stopMoveRight(c.s)
      IN  IF ~c.ok THEN [s |-> c.s, out |-> StopFailed]
          ELSE IF ~m.ok THEN [s |-> m.s, out |-> StopFailed]
          ELSE [s |-> m.s, out |-> StopYield(m.s, m.s.node)]

\* The positions (from 0) of the node n in the layer `depth`.
positionsOf(s, n, depth) ==
    IF hasLayer(s, depth)
    THEN {q \in 0..(layerLen(s, depth) - 1) : nodeAt(s, depth, q) = n}
    ELSE {}

\* Whether the node just emitted lies at the checkpoint or after it, layer
\* by layer and left to right, by its first position in the layer reported.
emittedLate(s, o) ==
    /\ o.kind = "node" /\ o.node # 0
    /\ positionsOf(s, o.node, o.depth) # {}
    /\ \/ o.depth > s.stopi
       \/ o.depth = s.stopi /\ Min(positionsOf(s, o.node, o.depth)) >= s.stopj

\* One call of next() on the builder with a checkpoint; a caller whose call
\* raised stops.
StepStop ==
    /\ it.made
    /\ out.kind # "throw"
    /\ \E r \in {stopNext(it)} :
          /\ it' = [r.s EXCEPT
                      !.emitted = IF r.out.kind = "node" THEN @ + 1 ELSE @,
                      !.late = @ \/ emittedLate(r.s, r.out)]
          /\ out' = r.out
    /\ UNCHANGED <<create, tree, ret>>

InitStop ==
    /\ create \in [leaves : SeqsUpTo(FewVals, MaxStopLeaves) \ {<<>>},
                   options : IterOptions]
    /\ tree = NoTree
    /\ ret = NoRet
    /\ \E stopi \in 0..MaxStopLayer, stopj \in 0..MaxStopPos :
          it = MerkleFromLeavesAt(create.leaves, create.options, stopi, stopj)
    /\ out = NoOut
NextStop == StepStop
SpecStop == InitStop /\ [][NextStop]_vars

-----------------------------------------------------------------------------
(* The constructor with a hashAlgorithm that returns other things than
   Buffers *)

\* What the caller's hashAlgorithm returns: a Buffer, a number, null, or a
\* string that is no hex string.
HashReturns == {"buffer", "number", "null", "text"}

\* Whether a call of this.hashAlgo raises.  A number raises a RangeError in
\* v.toString(CryptoJS.enc.Hex), null a TypeError; for a string that is no
\* hex string Buffer.from(v, "hex") raises where the platform rejects the
\* text (strictHex) and returns the empty Buffer where it does not.
hashRaises(returns, strictHex) ==
    \/ returns \in {"number", "null"}
    \/ returns = "text" /\ strictHex

\* Whether the constructor calls this.hashAlgo at all: on every leaf with
\* hashLeaves, and on the first pair of createHashes with two leaves or more.
hashCalled(c) ==
    \/ c.options.hashLeaves /\ Len(c.leaves) > 0
    \/ Len(c.leaves) > 1

\* The constructor left by an exception: whether this.layers was assigned
\* and what it held.
Unbuilt(layersSet, layers) ==
    [op |-> "new", called |-> TRUE, raised |-> TRUE, layersSet |-> layersSet,
     layers |-> layers]

Built(c, t) ==
    [op |-> "new", called |-> hashCalled(c), raised |-> FALSE,
     layersSet |-> TRUE, layers |-> t.layers]

\* new MerkleTree(leaves, hashAlgorithm, options) up to its return or to the
\* first exception of this.hashAlgo: in leaves.map(this.hashAlgo), before
\* this.layers is assigned, or in the first round of createHashes, after
\* this.layers = [this.leaves] and this.layers.push([]).
newMerkleTree(c) ==
    LET o == c.options
        made == Array([i \in 1..Len(c.leaves) |-> Buf(c.leaves[i])])
        lvs == IF o.sortLeaves \/ o.sort THEN sortLeaves(made) ELSE made
    IN  IF hashRaises(c.returns, c.strictHex) /\ o.hashLeaves /\ Len(c.leaves) > 0
        THEN Unbuilt(FALSE, <<>>)
        ELSE IF hashRaises(c.returns, c.strictHex) /\ Len(c.leaves) > 1
        THEN Unbuilt(TRUE, <<lvs, <<>>>>)
        ELSE Built(c, MerkleTreeWith(c.leaves, o, c.returns))

ConstructWith ==
    /\ ~tree.built
    /\ ret = NoRet
    /\ ret' = newMerkleTree(create)
    /\ tree' = IF ret'.raised THEN tree
               ELSE MerkleTreeWith(create.leaves, create.options, create.returns)
    /\ UNCHANGED <<create, it, out>>

HashOptions == {o \in Options : ~o.createLeaves}

InitHash ==
    /\ create \in [leaves : SeqsUpTo(FewVals, MaxHashLeaves),
                   options : HashOptions,
                   returns : HashReturns,
                   strictHex : BOOLEAN]
    /\ tree = NoTree
    /\ ret = NoRet
    /\ it = NoIter
    /\ out = NoOut

NextHash == ConstructWith
SpecHash == InitHash /\ [][NextHash]_vars

-----------------------------------------------------------------------------
(* getLayersAsObject and the constructor's recreate branch *)

\* A property name of the snapshot: the text of a Buffer read as UTF-8
\* (obj[el.data]), "0x" and the hex digits of a Buffer, the text
\* "0x[object Object]" of a leaf object in an upper layer, or one of the
\* names meta and value.
Key(enc, bytes) == [enc |-> enc, bytes |-> bytes]
NoKey == Key("undefined", <<>>)
MetaKey == Key("meta", <<>>)
ValueKey == Key("value", <<>>)

\* The values found in a snapshot.  An object is the list of its properties
\* in insertion order.
JNull == [k |-> "null", n |-> 0, s |-> NoKey, entries |-> <<>>]
JUndef == [k |-> "undefined", n |-> 0, s |-> NoKey, entries |-> <<>>]
JNum(n) == [k |-> "number", n |-> n, s |-> NoKey, entries |-> <<>>]
JStr(key) == [k |-> "string", n |-> 0, s |-> key, entries |-> <<>>]
JObj(entries) == [k |-> "object", n |-> 0, s |-> NoKey, entries |-> entries]
Entry(key, val) == [key |-> key, val |-> val]

\* Object.keys(v)[0]: undefined for an object without properties and for a
\* number.
firstKey(v) == IF v.entries = <<>> THEN NoKey ELSE v.entries[1].key

\* v[key]
get(v, key) ==
    LET at == {i \in 1..Len(v.entries) : v.entries[i].key = key}
    IN  IF at = {} THEN JUndef ELSE v.entries[Min(at)].val

\* obj[key] = val: an existing property keeps its place and takes the value.
put(entries, key, val) ==
    LET at == {i \in 1..Len(entries) : entries[i].key = key}
    IN  IF at = {} THEN Append(entries, Entry(key, val))
        ELSE [entries EXCEPT ![Min(at)].val = val]

\* The element of layers[i][j] in getLayersAsObject: the key it is filed
\* under, and what is left of a leaf once its data is deleted.
elKey(t, i, x) ==
    IF i = 0 /\ t.createLeaves THEN Key("utf8", x.v)
    ELSE IF isBuffer(x) THEN Key("hex", x.v)
    ELSE Key("object", <<>>)

elBody(t, i, x) ==
    IF i = 0 /\ t.createLeaves
    THEN JObj(<<Entry(MetaKey, JNum(x.m)),
                Entry(ValueKey, JStr(Key("hex", x.v)))>>)
    ELSE JNull

\* The children an element takes from the front of objs: one or two.
taken(objs) == IF Len(objs) >= 2 THEN 2 ELSE Len(objs)

adopt(objs) ==
    LET a == objs[1].entries[1]
        one == put(<<>>, a.key, a.val)
    IN  IF Len(objs) >= 2
        THEN put(one, objs[2].entries[1].key, objs[2].entries[1].val)
        ELSE one

\* The inner loop of getLayersAsObject from position j on; the result is
\* objs after objs.push(...arr).
RECURSIVE snapLayer(_, _, _, _, _)
snapLayer(t, i, j, objs, arr) ==
    IF j >= Len(t.layers[i + 1]) THEN objs \o arr
    ELSE LET x == t.layers[i + 1][j + 1]
             val == IF objs = <<>> THEN elBody(t, i, x) ELSE JObj(adopt(objs))
             obj == JObj(<<Entry(elKey(t, i, x), val)>>)
         IN  snapLayer(t, i, j + 1, SubSeq(objs, taken(objs) + 1, Len(objs)),
                       Append(arr, obj))

RECURSIVE snapLayers(_, _, _)
snapLayers(t, i, objs) ==
    IF i >= Len(t.layers) THEN objs
    ELSE snapLayers(t, i + 1, snapLayer(t, i, 0, objs, <<>>))

\* getLayersAsObject(): the first layer is mapped with x.data.toString("hex"),
\* which raises on a Buffer, that has no data.
getLayersAsObject(t) ==
    IF ~t.createLeaves /\ Len(t.layers[1]) > 0 THEN Throw
    ELSE LET objs == snapLayers(t, 0, <<>>)
         IN  Return(IF objs = <<>> THEN JUndef ELSE objs[1])

\* bufferify(nodeKey): the bytes a key stands for.
keyBytes(key) == key.bytes

\* this.bufferify()({ value: nodeKey, meta: a[nodeKey].meta }): with
\* createLeaves the value becomes a Buffer, without it the object is returned
\* with the key as its value.
leafOf(createLeaves, nodeKey, meta) ==
    IF createLeaves THEN Obj(keyBytes(nodeKey), meta.n)
    ELSE [t |-> "string", v |-> nodeKey.bytes, m |-> meta.n]

\* The objects pushed for the properties of a[nodeKey].
childrenOf(v) == Array([i \in 1..Len(v.entries) |-> JObj(<<v.entries[i]>>)])

\* The loop of getLeavesFromLayers.  own is this.hasOwnProperty("createLeaves"),
\* which the recreate branch makes true before the call.
RECURSIVE leavesFrom(_, _, _, _)
leavesFrom(arr, leaves, own, createLeaves) ==
    IF arr = <<>> THEN Return(leaves)
    ELSE LET a == arr[1]
             nodeKey == firstKey(a)
             v == get(a, nodeKey)
             none == v.k \in {"null", "undefined"}
         IN  IF a.k \in {"null", "undefined"} THEN Throw
             ELSE IF own /\ none THEN Throw
             ELSE IF own /\ firstKey(v) = MetaKey
             THEN leavesFrom(Tail(arr),
                      Append(leaves, leafOf(createLeaves, nodeKey, get(v, MetaKey))),
                      own, createLeaves)
             ELSE IF none
             THEN leavesFrom(Tail(arr), Append(leaves, a), own, createLeaves)
             ELSE leavesFrom(Tail(arr) \o childrenOf(v), leaves, own, createLeaves)

\* new MerkleTree({ recreate: { layers, options } }): the leaves it derives.
getLeavesFromLayers(layers, createLeaves) ==
    leavesFrom(<<layers>>, <<>>, TRUE, createLeaves)

\* A snapshot with one node's content replaced: the root's for p = 0, the
\* content of the root's p-th child otherwise.
damaged(snap, p, r) ==
    LET root == snap.entries[1]
    IN  IF p = 0 THEN JObj(<<Entry(root.key, r)>>)
        ELSE JObj(<<Entry(root.key,
                          JObj([root.val.entries EXCEPT ![p].val = r]))>>)

\* What a damaged node holds: an object without properties, null, a number.
Damage == {JObj(<<>>), JNull, JNum(5)}

GetLayersAsObject ==
    /\ tree.built
    /\ ret = NoRet
    /\ ret' = [op |-> "getLayersAsObject", res |-> getLayersAsObject(tree)]
    /\ UNCHANGED <<create, tree, it, out>>

\* Recreation from the snapshot just exported.
Recreate ==
    /\ ret.op = "getLayersAsObject"
    /\ ret.res.kind = "return"
    /\ \E createLeaves \in BOOLEAN :
          ret' = [op |-> "recreate", layers |-> ret.res.val,
                  createLeaves |-> createLeaves,
                  res |-> getLeavesFromLayers(ret.res.val, createLeaves)]
    /\ UNCHANGED <<create, tree, it, out>>

\* Recreation from the snapshot just exported with one node damaged.
RecreateDamaged ==
    /\ ret.op = "getLayersAsObject"
    /\ ret.res.kind = "return"
    /\ ret.res.val.k = "object"
    /\ \E p \in 0..Len(ret.res.val.entries[1].val.entries), r \in Damage :
          /\ p > 0 => firstKey(ret.res.val.entries[1].val) # MetaKey
          /\ ret' = [op |-> "recreateDamaged", at |-> p, with |-> r,
                     layers |-> damaged(ret.res.val, p, r),
                     res |-> getLeavesFromLayers(damaged(ret.res.val, p, r),
                                                 tree.createLeaves)]
    /\ UNCHANGED <<create, tree, it, out>>

SnapOptions == {o \in Options : ~o.hashLeaves}

InitSnap == InitWith(SeqsUpTo(FewVals, MaxSnapLeaves), SnapOptions)
NextSnap == Construct \/ GetLayersAsObject \/ Recreate \/ RecreateDamaged
SpecSnap == InitSnap /\ [][NextSnap]_vars

-----------------------------------------------------------------------------
(* verify on proofs and leaves other than the ones getProof returned *)

\* Leaves of unequal lengths, as callers that do not hash their leaves pass.
TamperVals == {Raw(<<0, 1>>), Raw(<<1, 0>>), Raw(<<0, 1, 0>>)}

\* The bytes of every node of the tree.
Digests(t) ==
    UNION {{t.layers[k][p].v : p \in 1..Len(t.layers[k])} : k \in 1..Len(t.layers)}

\* The values a caller may put in the place of a digest or of the leaf.
Replacements(t) == TamperVals \cup {Stranger} \cup Digests(t)

otherSide(position) == IF position = "left" THEN "right" ELSE "left"

\* The proof with the recorded side of the entries at `flipped` inverted.
withSides(proof, flipped) ==
    Array([j \in 1..Len(proof) |->
              IF j \in flipped
              THEN [proof[j] EXCEPT !.position = otherSide(@)]
              ELSE proof[j]])

\* The proof with the data of entry j replaced by the Buffer d.
withData(proof, j, d) ==
    Array([i \in 1..Len(proof) |->
              IF i = j THEN [proof[i] EXCEPT !.data = Buf(d)] ELSE proof[i]])

\* verify(proof', leaf', getRoot()) after getProof(leaf, index) returned
\* proof: either the sides of some entries are inverted, or one entry's data
\* is replaced by other bytes, or the leaf is.
VerifyAs ==
    /\ tree.built
    /\ ret.op = "getProof" /\ ret.res.kind = "return"
    /\ LET proof == ret.res.val
           base == verify(tree, List(proof), Buf(ret.leaf), getRoot(tree))
       IN  \/ \E flipped \in SUBSET (1..Len(proof)) :
                 ret' = [op |-> "verifyAs", tampered |-> "none",
                         flipped |-> flipped, base |-> base,
                         res |-> verify(tree, List(withSides(proof, flipped)),
                                        Buf(ret.leaf), getRoot(tree))]
           \/ \E j \in 1..Len(proof), d \in Replacements(tree) :
                 /\ Buf(d) # proof[j].data
                 /\ ret' = [op |-> "verifyAs", tampered |-> "entry",
                            flipped |-> {}, base |-> base,
                            res |-> verify(tree, List(withData(proof, j, d)),
                                           Buf(ret.leaf), getRoot(tree))]
           \/ \E d \in Replacements(tree) :
                 /\ d # ret.leaf
                 /\ ret' = [op |-> "verifyAs", tampered |-> "leaf",
                            flipped |-> {}, base |-> base,
                            res |-> verify(tree, List(proof), Buf(d),
                                           getRoot(tree))]
    /\ UNCHANGED <<create, tree, it, out>>

\* verify of one sibling against the parent digest with the other sibling
\* as the only proof entry, both ways round.
VerifySiblings ==
    /\ tree.built
    /\ \E k \in 1..(Len(tree.layers) - 1), side \in {"left", "right"} :
          \E q \in 1..(Len(tree.layers[k]) \div 2) :
             LET a == tree.layers[k][2 * q - 1]
                 b == tree.layers[k][2 * q]
                 parent == tree.layers[k + 1][q]
             IN  ret' = [op |-> "verifySiblings", side |-> side,
                         ab |-> verify(tree, List(<<[position |-> side, data |-> b]>>),
                                       a, parent),
                         ba |-> verify(tree, List(<<[position |-> side, data |-> a]>>),
                                       b, parent)]
    /\ UNCHANGED <<create, tree, it, out>>

TamperOptions == {o \in ProofOptions : ~o.createLeaves}

InitTamper == InitWith(SeqsUpTo(TamperVals, MaxTamperLeaves), TamperOptions)
NextTamper == Construct \/ GetProof \/ VerifyAs \/ VerifySiblings
SpecTamper == InitTamper /\ [][NextTamper]_vars

\* The proof with the entries at `strings` given as hex strings.
withStrings(proof, strings) ==
    Array([j \in 1..Len(proof) |->
              IF j \in strings THEN StringEntry(proof[j].data.v) ELSE proof[j]])

\* verify on the proof getProof has just returned, some entries given as hex
\* strings, against the tree's root or against other bytes.
VerifyEntries ==
    /\ tree.built
    /\ ret.op = "getProof" /\ ret.res.kind = "return"
    /\ \E strings \in SUBSET (1..Len(ret.res.val)),
          root \in {getRoot(tree), Buf(Stranger)} :
          ret' = [op |-> "verifyEntries", leaf |-> ret.leaf, root |-> root,
                  proof |-> withStrings(ret.res.val, strings),
                  res |-> verify(tree, List(withStrings(ret.res.val, strings)),
                                 Buf(ret.leaf), root)]
    /\ UNCHANGED <<create, tree, it, out>>

NextFold == Construct \/ GetProof \/ VerifyEntries
SpecFold == InitTamper /\ [][NextFold]_vars

-----------------------------------------------------------------------------
(* The claims *)

Bytes(layer) == [p \in 1..Len(layer) |-> layer[p].v]

\* A getProof call that named a position of the tree.
ValidIndex(r) == r.index.given /\ r.index.n \in 0..(Len(tree.leaves) - 1)

\* C1: for every tree built from a non-empty leaf sequence, under every
\* policy, and every leaf position i, verify(getProof(leaf_i, i), leaf_i,
\* getRoot()) returns true.
C1_ProofVerifies ==
    (ret.op = "verify" /\ ret.via = "getProof" /\ ValidIndex(ret))
        => ret.res = Return(TRUE)

\* C2: when the step-wise builder has emitted its root, the root digest is
\* byte-equal to getRoot() of the eager tree of the same leaves and policy.
C2_SameRoot ==
    (it.made /\ it.done) => digestOf(it, it.node) = getRoot(tree).v

\* C3: when the step-wise builder has emitted its root, its layers are the
\* eager tree's: as many layers, of the same lengths, with the same digests.
C3_SameLayers ==
    (it.made /\ it.done) =>
        iterLayers(it) = [k \in 1..Len(tree.layers) |-> Bytes(tree.layers[k])]

\* The positions (from 0) of the leaves byte-equal to `leaf`.
EqualLeaves(leaf) ==
    {i \in 0..(Len(tree.leaves) - 1) : tree.leaves[i + 1].v = leaf}

\* A getProof call without an index, for a leaf the tree holds, that returned.
AskedByValue(r) ==
    /\ r.op \in {"getProof", "getProofValue"}
    /\ ~r.index.given
    /\ EqualLeaves(r.leaf) # {}
    /\ r.res.kind = "return"

\* The proof the same getProof builds for the position n.
ProofOfPosition(r, n) ==
    IF r.op = "getProof" THEN getProof(tree, r.leaf, Index(n))
    ELSE getProofValue(tree, r.leaf, Index(n))

C5_AbsentLeafEmptyProof ==
    (/\ ret.op \in {"getProof", "getProofValue"}
     /\ ~ret.index.given
     /\ EqualLeaves(ret.leaf) = {})
        => ret.res = Return(<<>>)

\* C6: verify returns false, and does not raise, when the proof is no list
\* or is empty, or the leaf or the root is null or undefined.
C6_ShapesAnsweredFalse ==
    (/\ ret.op = "verifyShape"
     /\ \/ ret.proof \in {NotAList, List(<<>>)}
        \/ ret.leaf \in {Null, Undef}
        \/ ret.root \in {Null, Undef})
        => ret.res = Return(FALSE)

\* The layers above which the next layer is as long.
FlatSteps(t) ==
    {k \in 1..(Len(t.layers) - 1) : Len(t.layers[k + 1]) = Len(t.layers[k])}

\* C7: for a non-empty leaf sequence, the layer sizes strictly decrease from
\* each layer to the next (staying equal at most once, and only under the
\* promote policy) until a layer of one node; that layer is the last and
\* its node is the root.
C7_LayerSizes ==
    (tree.built /\ Len(create.leaves) >= 1) =>
        /\ \A k \in 1..(Len(tree.layers) - 1) :
              /\ \/ Len(tree.layers[k + 1]) < Len(tree.layers[k])
                 \/ /\ k \in FlatSteps(tree)
                    /\ ~tree.isBitcoinTree /\ ~tree.duplicateOdd
              /\ Len(tree.layers[k]) > 1
        /\ Cardinality(FlatSteps(tree)) <= 1
        /\ Len(tree.layers[Len(tree.layers)]) = 1
        /\ getRoot(tree) = tree.layers[Len(tree.layers)][1]

C7_Witness ==
    /\ tree.built
    /\ Len(create.leaves) = 5
    /\ Len(tree.layers) = 4

\* The sum of a sequence of numbers.
RECURSIVE Sum(_)
Sum(q) == IF q = <<>> THEN 0 ELSE q[1] + Sum(Tail(q))

\* C8: a tree of one leaf has the single layer 0, its root is that leaf
\* (hashed when hashLeaves is set), and no pair was hashed.
C8_SingleLeaf ==
    (tree.built /\ Len(create.leaves) = 1) =>
        /\ Len(tree.layers) = 1
        /\ getRoot(tree) = tree.leaves[1]
        /\ getRoot(tree).v = IF create.options.hashLeaves
                             THEN hashAlgo(create.leaves[1])
                             ELSE create.leaves[1]
        /\ Sum(tree.calls) = 0

C8_Witness ==
    /\ tree.built
    /\ Len(create.leaves) = 1
    /\ create.options.duplicateOdd
    /\ create.options.isBitcoinTree
    /\ create.options.hashLeaves

\* Whether some layer of the tree has an odd length greater than 1.
HasOddLayer(t) ==
    \E k \in 1..Len(t.layers) : Len(t.layers[k]) > 1 /\ Len(t.layers[k]) % 2 = 1

\* C9 (as claimed): when some layer has an odd length greater than 1, the
\* tree of the same leaves, hash and other flags with duplicateOdd toggled
\* has another root.
C9_ToggleChangesRoot ==
    (ret.op = "twin" /\ HasOddLayer(tree)) =>
        getRoot(ret.tree) # getRoot(tree)

\* C9 (amended): the same for trees that are not Bitcoin trees.
C9_ToggleChangesRootNonBitcoin ==
    (ret.op = "twin" /\ HasOddLayer(tree) /\ ~create.options.isBitcoinTree) =>
        getRoot(ret.tree) # getRoot(tree)

C9_Witness ==
    /\ ret.op = "twin"
    /\ HasOddLayer(tree)
    /\ ~create.options.isBitcoinTree
    /\ Len(create.leaves) = 5

\* C10: under the default policy the lone trailing node of a layer of odd
\* length greater than 1 is the last node of the next layer, unhashed; for
\* three leaves a, b, c: layer 1 = [H(a||b), c], root = H(layer1[0]||layer1[1])
\* and getProof(c) = [{left, layer1[0]}].
C10_PromotedUnchanged ==
    (tree.built /\ ~create.options.isBitcoinTree /\ ~create.options.duplicateOdd) =>
        /\ \A k \in 1..(Len(tree.layers) - 1) :
              (Len(tree.layers[k]) > 1 /\ Len(tree.layers[k]) % 2 = 1) =>
                  /\ tree.layers[k + 1][Len(tree.layers[k + 1])]
                        = tree.layers[k][Len(tree.layers[k])]
                  /\ tree.calls[k + 1] = (Len(tree.layers[k]) - 1) \div 2
        /\ (/\ Len(tree.leaves) = 3
            /\ ~create.options.sortPairs
            /\ ret.op = "getProof" /\ ~ret.index.given
            /\ ret.leaf = tree.leaves[3].v) =>
              /\ tree.layers[2]
                    = <<Buf(hashAlgo(tree.leaves[1].v \o tree.leaves[2].v)),
                        tree.leaves[3]>>
              /\ getRoot(tree)
                    = Buf(hashAlgo(tree.layers[2][1].v \o tree.layers[2][2].v))
              /\ ret.res = Return(<<[position |-> "left",
                                     data |-> tree.layers[2][1]]>>)

C10_Witness ==
    /\ tree.built
    /\ ~create.options.isBitcoinTree /\ ~create.options.duplicateOdd
    /\ ~create.options.sortPairs
    /\ Len(tree.leaves) = 3
    /\ Cardinality({tree.leaves[i] : i \in 1..3}) = 3
    /\ ret.op = "getProof" /\ ~ret.index.given
    /\ ret.leaf = tree.leaves[3].v

\* C11: under isBitcoinTree the trailing node x of a layer of odd length
\* greater than 1 gives reverse(H(H(reverse(x) || reverse(x)))) as the last
\* node of the next layer, whatever duplicateOdd and sortPairs are, and that
\* node is never x itself.
C11_BitcoinOddSelfPair ==
    (tree.built /\ create.options.isBitcoinTree) =>
        \A k \in 1..(Len(tree.layers) - 1) :
            (Len(tree.layers[k]) > 1 /\ Len(tree.layers[k]) % 2 = 1) =>
                LET x == tree.layers[k][Len(tree.layers[k])]
                    y == tree.layers[k + 1][Len(tree.layers[k + 1])]
                IN  /\ y.v = reverse(hashAlgo(hashAlgo(reverse(x.v) \o reverse(x.v))))
                    /\ isBuffer(y)
                    /\ y # x

C11_Witness ==
    /\ tree.built
    /\ create.options.isBitcoinTree
    /\ create.options.duplicateOdd /\ create.options.sortPairs
    /\ Len(tree.leaves) = 5
    /\ tree.leaves[5].v # reverse(tree.leaves[5].v)

\* C12: with sortPairs and not isBitcoinTree, the result of verify is the
\* same whatever side the proof entries record, and of two siblings a, b
\* with parent digest p each verifies against p with the other as the only
\* proof entry.
C12_SortPairsOrderFree ==
    (create.options.sortPairs /\ ~create.options.isBitcoinTree) =>
        /\ (ret.op = "verifyAs" /\ ret.tampered = "none") => ret.res = ret.base
        /\ ret.op = "verifySiblings" =>
              (ret.ab = Return(TRUE) /\ ret.ba = Return(TRUE))

C12_Witness ==
    /\ create.options.sortPairs /\ ~create.options.isBitcoinTree
    /\ ret.op = "verifyAs" /\ ret.tampered = "none"
    /\ Cardinality(ret.flipped) = 2
    /\ ret.base = Return(TRUE)

\* C13: when verify(P, L, R) is true, it is false with the data of one entry
\* of P replaced by different bytes, and false with L replaced by different
\* bytes.
C13_TamperRejected ==
    (ret.op = "verifyAs" /\ ret.tampered # "none" /\ ret.base = Return(TRUE))
        => ret.res = Return(FALSE)

\* The leaf counts of the perfectly even trees.
PowersOfTwo == {1, 2, 4, 8, 16}

\* C14: for every non-empty leaf sequence and every policy no call of next()
\* raises, and when the leaf count is a power of two completion comes with
\* exactly 2 * leafCount - 1 results returned with done = false.
C14_CompletesInSteps ==
    it.made =>
        /\ out.kind # "throw"
        /\ (it.done /\ Len(create.leaves) \in PowersOfTwo) =>
              it.emitted = 2 * Len(create.leaves) - 1

\* C15: once the builder has emitted the root, every further call of next()
\* returns { value: null, done: true } and leaves the cursor, the layers,
\* the leaves and every node as they are.
C15_DoneStaysDone ==
    [][(it.made /\ it.done) =>
          /\ out'.kind = "null" /\ out'.done
          /\ it'.i = it.i /\ it'.j = it.j
          /\ it'.layers = it.layers
          /\ it'.leaves = it.leaves
          /\ it'.heap = it.heap
          /\ it'.done]_vars

C15_Witness == it.made /\ it.done /\ out.kind = "null" /\ Len(it.layers) >= 3

\* C16: when the cursor of a builder with a checkpoint has reached the
\* checkpoint, the call returned an exit marker carrying the layers built so
\* far, every node emitted before lay strictly before the checkpoint (layer
\* by layer, left to right), and every later call reports completion with
\* the marker.
C16_CheckpointStops ==
    (it.made /\ it.stop) =>
        /\ out.kind = "exit" /\ out.exit = it.layers
        /\ it.i = it.stopi /\ it.j = it.stopj
        /\ ~it.late

\* C17: when the caller's hash function returns a value that is neither bytes
\* nor a hex string, and the constructor calls it, the constructor raises
\* before this.layers holds anything, and never returns a tree whose digests
\* were made from the malformed value.
C17_MalformedHashFails ==
    (ret.op = "new" /\ ret.called /\ create.returns # "buffer") =>
        /\ ret.raised
        /\ ~ret.layersSet
        /\ ret.layers = <<>>

\* C17, the part that holds: a hash function that returns a number or null
\* never yields a tree once it is called.
C17_RaisesWhenCalled ==
    (ret.op = "new" /\ ret.called /\ create.returns \in {"number", "null"}) =>
        ret.raised /\ ~tree.built

\* C18: for a tree with at least one leaf, getLayersAsObject returns a
\* snapshot, and recreating from it with the tree's own createLeaves setting
\* yields the tree's leaves: same digests, same metadata, same count, same
\* order.
C18_SnapshotRoundTrip ==
    /\ (ret.op = "getLayersAsObject" /\ Len(tree.leaves) > 0) =>
           ret.res.kind = "return"
    /\ (ret.op = "recreate" /\ Len(tree.leaves) > 0
            /\ ret.createLeaves = tree.createLeaves) =>
           ret.res = Return(tree.leaves)

\* C18, the part that holds: with leaf metadata and at least one leaf, all
\* of different digests, the round trip returns the tree's leaves.
C18_DistinctLeavesRoundTrip ==
    (ret.op = "recreate" /\ tree.createLeaves /\ ret.createLeaves
        /\ Len(tree.leaves) > 0
        /\ \A i, j \in 1..Len(tree.leaves) :
              tree.leaves[i].v = tree.leaves[j].v => i = j) =>
        ret.res = Return(tree.leaves)

\* C19: recreation from a snapshot in which a node holds no child key, null
\* or a number where its children or its metadata are expected raises.
C19_MalformedSnapshotFails ==
    ret.op = "recreateDamaged" => ret.res.kind = "throw"

\* C19, the part that holds: a node that holds null raises.
C19_NullNodeFails ==
    (ret.op = "recreateDamaged" /\ ret.with = JNull) => ret.res.kind = "throw"

\* The digest the three combine rules give for the children l and r.
Combined(t, l, r) ==
    IF t.isBitcoinTree
    THEN reverse(hashAlgo(hashAlgo(reverse(l) \o reverse(r))))
    ELSE IF t.sortPairs
    THEN (IF BufferCompare(l, r) <= 0 THEN hashAlgo(l \o r) ELSE hashAlgo(r \o l))
    ELSE hashAlgo(l \o r)

\* Every pair of layer k gives its parent by the tree's rule, and with
\* duplicateOdd a lone trailing node of a non-Bitcoin tree gives H(x || x).
PairsCombine(t) ==
    \A k \in 1..(Len(t.layers) - 1) :
        LET lay == t.layers[k]
            up == t.layers[k + 1]
        IN  /\ \A p \in 0..(Len(lay) \div 2 - 1) :
                  /\ isBuffer(up[p + 1])
                  /\ up[p + 1].v = Combined(t, lay[2 * p + 1].v, lay[2 * p + 2].v)
            /\ (t.duplicateOdd /\ ~t.isBitcoinTree /\ Len(lay) % 2 = 1) =>
                  up[Len(up)] = Buf(hashAlgo(lay[Len(lay)].v \o lay[Len(lay)].v))

\* C20: in every eager tree each node above a pair is H(left || right) by
\* default, H(min || max) with sortPairs, and
\* reverse(H(H(reverse(left) || reverse(right)))) with isBitcoinTree; with
\* duplicateOdd a lone trailing node x of a non-Bitcoin tree gives H(x || x).
C20_PairCombine == tree.built => PairsCombine(tree)

\* C20, the part that holds: the trees that are not both Bitcoin trees and
\* trees of sorted pairs.
C20_PairCombineUnlessBitcoinSorted ==
    (tree.built /\ ~(tree.isBitcoinTree /\ tree.sortPairs)) => PairsCombine(tree)

\* The position reached at layer k (from 0) when walking up from the leaf
\* position n, and the position of its sibling.
UpIndex(n, k) == n \div (2 ^ k)
Sibling(n, k) == IF UpIndex(n, k) % 2 = 1 THEN UpIndex(n, k) - 1
                                          ELSE UpIndex(n, k) + 1

\* The layers below the root (from 0) at which the sibling is in bounds.
Contributing(t, n) ==
    {k \in 0..(Len(t.layers) - 2) : Sibling(n, k) < Len(t.layers[k + 1])}

\* The proof is the walk from the leaf position n: one entry for each
\* contributing layer, lowest layer first, with the sibling's digest and the
\* side left for an odd position, right for an even one.
IsWalk(t, proof, n) ==
    /\ Len(proof) = Cardinality(Contributing(t, n))
    /\ \A k \in Contributing(t, n) :
          proof[Cardinality({j \in Contributing(t, n) : j <= k})]
             = [position |-> IF UpIndex(n, k) % 2 = 1 THEN "left" ELSE "right",
                data |-> Buf(t.layers[k + 1][Sibling(n, k) + 1].v)]

\* C21: for a tree that is no Bitcoin tree and a leaf position, getProof
\* returns the walk from that position over the layers below the root; no
\* entry comes from the root layer.
C21_ProofIsWalk ==
    (/\ ret.op \in {"getProof", "getProofValue"}
     /\ ValidIndex(ret)
     /\ ~tree.isBitcoinTree) =>
        /\ ret.res.kind = "return"
        /\ IsWalk(tree, ret.res.val, ret.index.n)

\* C21, the part that holds: the getProof of the trees of Buffers.
C21_ProofIsWalkOfBuffers ==
    (/\ ret.op = "getProof"
     /\ ValidIndex(ret)
     /\ ~tree.isBitcoinTree) =>
        /\ ret.res.kind = "return"
        /\ IsWalk(tree, ret.res.val, ret.index.n)
        /\ \A i \in 1..Len(ret.res.val) : ret.res.val[i].data # getRoot(tree)

RECURSIVE Folded(_, _)
Folded(acc, proof) ==
    IF proof = <<>> THEN acc
    ELSE Folded(IF proof[1].position \in {"left", "string"}
                THEN hashAlgo(proof[1].data.v \o acc)
                ELSE hashAlgo(acc \o proof[1].data.v),
                Tail(proof))

ParentOfEmitted == it.heap[out.node].parent

\* A step has just emitted the left-position member of a pair.
EmittedLeft ==
    /\ it.made
    /\ out.kind = "node" /\ out.node # 0
    /\ out.index % 2 = 0
    /\ ~it.done

\* C24: after the step that emits the left-position member of a pair, the
\* pair's parent has no computed digest: the digest is computed by the step
\* that emits the right-position member.
C24_ParentDigestAtRight ==
    EmittedLeft =>
        \/ ParentOfEmitted = 0
        \/ ~it.heap[ParentOfEmitted].hasValue

\* C24, what the builder does instead: the step that emits the left-position
\* member has created the parent with the digest of the pair.
C24_ParentDigestAtLeft ==
    EmittedLeft =>
        /\ ParentOfEmitted # 0
        /\ it.heap[ParentOfEmitted].hasValue
        /\ it.heap[ParentOfEmitted].value
              = parentHash(it, it.heap[ParentOfEmitted].left,
                           it.heap[ParentOfEmitted].right)

\* C25, the part that holds for the builder that reports depth and index:
\* each node it emits is the node at the depth and index it is reported with, and the node emitted by the step that sets done is the
\* sole node of the top layer, with the digest of its two children.
C25_EmittedInPlace ==
    (it.made /\ out.kind = "node") =>
        /\ out.node # 0
        /\ hasNodeAt(it, out.depth, out.index)
        /\ nodeAt(it, out.depth, out.index) = out.node
        /\ it.done =>
              /\ out.depth = Len(it.layers) - 1
              /\ it.layers[Len(it.layers)] = <<out.node>>
              /\ it.heap[out.node].hasValue
              /\ it.heap[out.node].value
                    = parentHash(it, it.heap[out.node].left,
                                 it.heap[out.node].right)

\* C25, the part that holds for the same builder: from one emitted node to
\* the next, the pair (depth, index) grows in lexicographic order.
C25_TraversalOrder ==
    [][(it.made /\ out.kind = "node" /\ out'.kind = "node") =>
          \/ out.depth < out'.depth
          \/ out.depth = out'.depth /\ out.index < out'.index]_vars


\* The first position of the node n in the layer `depth` of the builder s
\* (-1 when it is not there).
PlaceOf(s, n, depth) ==
    IF n # 0 /\ positionsOf(s, n, depth) # {}
    THEN Min(positionsOf(s, n, depth)) ELSE -1

\* C25: the nodes are emitted in traversal order.  For the builder with a
\* checkpoint, which reports the depth only: from one emitted node to the
\* next, the pair (depth, position in the layer) grows in lexicographic
\* order.
C25_CheckpointTraversalOrder ==
    [][(it.made /\ out.kind = "node" /\ out'.kind = "node") =>
          \/ out.depth < out'.depth
          \/ /\ out.depth = out'.depth
             /\ PlaceOf(it, out.node, out.depth)
                  < PlaceOf(it', out'.node, out'.depth)]_vars

\* The internal nodes present in the layers of the builder s.
InternalNodes(s) ==
    {n \in 1..Len(s.heap) :
        /\ ~s.heap[n].hasLeaf
        /\ \E k \in 1..Len(s.layers) : \E q \in 1..Len(s.layers[k]) :
              s.layers[k][q] = n}

\* The node n has two children that name it as their parent.
Linked(s, n) ==
    /\ s.heap[n].left # 0 /\ s.heap[n].right # 0
    /\ s.heap[s.heap[n].left].parent = n
    /\ s.heap[s.heap[n].right].parent = n

\* C26: after every step of the builder, every internal node in the layers
\* has a left and a right child, both children name it as their parent, and
\* its digest is the combination of its children's digests.  Stated for the
\* builder with a checkpoint.
C26_CheckpointLinkage ==
    it.made =>
        \A n \in InternalNodes(it) :
            /\ Linked(it, n)
            /\ it.heap[n].valued
            /\ nodeHash(it, n) = [ok |-> TRUE, v |-> it.heap[n].value]

\* C26, the part that holds: the same for the builder without a checkpoint.
C26_Linkage ==
    it.made =>
        \A n \in InternalNodes(it) :
            /\ Linked(it, n)
            /\ it.heap[n].hasValue
            /\ it.heap[n].value
                  = parentHash(it, it.heap[n].left, it.heap[n].right)

\* C27: after any number of next() calls, under every policy, the leaves
\* list the builder was created with has the same elements in the same
\* order as at creation.
C27_LeavesUnchanged ==
    it.made => it.leaves = create.leaves

\* C27, the part that holds: without duplicateOdd, and with it for an even
\* number of leaves.
C27_LeavesUnchangedWhenPaired ==
    (it.made /\ (~it.options.duplicateOdd \/ Len(create.leaves) % 2 = 0)) =>
        it.leaves = create.leaves

C29_OutOfRangeIsEmpty ==
    (/\ ret.op \in {"getProof", "getProofValue"}
     /\ ret.index.given
     /\ ret.index.n \notin 0..(Len(tree.leaves) - 1)) =>
        ret.res = Return(<<>>)

\* C29, the part that holds: a negative explicit index returns the empty
\* proof.
C29_NegativeIsEmpty ==
    (/\ ret.op \in {"getProof", "getProofValue"}
     /\ ret.index.given
     /\ ret.index.n < 0) =>
        ret.res = Return(<<>>)

\* The bytes at every place of every layer.
BytesOf(layers) ==
    Array([i \in 1..Len(layers) |->
        Array([j \in 1..Len(layers[i]) |-> layers[i][j].v])])

\* C30: with sortLeaves, layer 0 is in ascending order of the leaves' bytes,
\* and a tree built from the same leaves in another order has the same root
\* and the same bytes at every place of every layer; when the leaves are
\* Buffers the layers are the same outright.
C30_SortedAndOrderIndependent ==
    (tree.built /\ tree.sortLeaves) =>
        /\ \A i \in 1..(Len(tree.leaves) - 1) :
               BufferCompare(tree.layers[1][i].v, tree.layers[1][i + 1].v) <= 0
        /\ ret.op = "permuted" =>
               /\ getRoot(ret.tree) = getRoot(tree)
               /\ BytesOf(ret.tree.layers) = BytesOf(tree.layers)
               /\ ~tree.createLeaves => ret.tree.layers = tree.layers

\* Two trees from three or more leaves, given out of order and in two
\* different orders.
C30_Witness ==
    /\ tree.built /\ tree.sortLeaves
    /\ ret.op = "permuted"
    /\ ret.leaves # create.leaves
    /\ Len(create.leaves) >= 3
    /\ BytesOf(<<tree.leaves>>) # <<create.leaves>>
    /\ ~tree.hashLeaves

====
